---- MODULE Spec2Model ----
(***************************************************************************)
(* Bidirectional synchronisation between the CodeMirror source pane and    *)
(* the Milkdown rich pane of the dual-pane markdown editor.                *)
(*                                                                         *)
(* Two wirings of the same pair of editors exist in the repository:        *)
(*   "SyncManager" : class SyncManager (src/main.js 186-373) driven by the *)
(*                   wrappers initializeCodeMirror (src/unnamed/part_001)  *)
(*                   and initializeMilkdown (src/milkdown-setup.js 23-113),*)
(*                   wired together by initialize (src/main.js 53-85);     *)
(*   "module"      : the module-level syncManager object and its functions *)
(*                   handleCodeMirrorChange / syncToMilkdown /             *)
(*                   handleMilkdownChange / syncToCodeMirror               *)
(*                   (src/milkdown-setup.js 165-583).                      *)
(* A behaviour runs one wiring, chosen in Init.                            *)
(*                                                                         *)
(* Time is counted in ticks of 100 ms.  Every setTimeout is a countdown;   *)
(* Tick lets time pass only while no countdown has expired, and an expired *)
(* countdown runs its callback as one atomic step (one event-loop task,    *)
(* including the microtasks it queues).                                    *)
(***************************************************************************)
EXTENDS Integers, Sequences, FiniteSets, TLC

\* ------------------------------------------------------------------ bounds
MaxLen == 2            \* longest markdown text the user types
MaxEdits == 3          \* how many edits the user makes in one run
MaxSize == 20          \* largest content size a lone cursor translation is given

\* --------------------------------------------------------- time constants
SyncDelay == 5         \* this.syncDelay = 500 ms
DebounceDelay == 3     \* syncManager.debounceDelay = 300 ms
ReleaseDelay == 1      \* setTimeout(..., 100) in the finally blocks
ListenerDelay == 2     \* plugin-listener delivers 200 ms after a transaction

NoTimer ==
    [source |-> "none", content |-> << >>, origin |-> "none", left |-> 0,
     disposed |-> FALSE]
Null == "null"

\* ------------------------------------------------------------ the contents
Chars == {"a", "\n"}

RECURSIVE SeqsUpTo(_, _)
SeqsUpTo(S, n) ==
    IF n = 0 THEN {<< >>}
    ELSE LET shorter == SeqsUpTo(S, n - 1)
         IN  shorter \cup {Append(s, c) : s \in shorter, c \in S}

Texts == SeqsUpTo(Chars, MaxLen)

Min(a, b) == IF a < b THEN a ELSE b
Max(a, b) == IF a > b THEN a ELSE b

\* String.prototype.split('\n'): the pieces between the newlines, in order.
RECURSIVE split(_)
split(text) ==
    IF text = << >> THEN << << >> >>
    ELSE LET rest == split(Tail(text))
         IN  IF Head(text) = "\n"
             THEN << << >> >> \o rest
             ELSE << <<Head(text)>> \o Head(rest) >> \o Tail(rest)

\* The markdown parser of the rich editor: the tree is the sequence of the
\* text's non-empty blocks; blank lines and a trailing newline carry no node.
RECURSIVE dropEmpty(_)
dropEmpty(blocks) ==
    IF blocks = << >> THEN << >>
    ELSE IF Head(blocks) = << >> THEN dropEmpty(Tail(blocks))
    ELSE <<Head(blocks)>> \o dropEmpty(Tail(blocks))

parser(content) == dropEmpty(split(content))

\* The serializer of the rich editor: the blocks, one per line.
RECURSIVE serializer(_)
serializer(doc) ==
    IF doc = << >> THEN << >>
    ELSE IF Len(doc) = 1 THEN Head(doc)
    ELSE Head(doc) \o <<"\n">> \o serializer(Tail(doc))

\* doc.content.size: every block node takes an opening and a closing slot.
RECURSIVE contentSize(_)
contentSize(doc) ==
    IF doc = << >> THEN 0 ELSE Len(Head(doc)) + 2 + contentSize(Tail(doc))

Docs == {parser(t) : t \in Texts}

\* The page's initial markdown, given to both editors: a text the
\* serializer reproduces, or one it normalises.
initialContent == {<<"a">>, <<"\n">>}

\* One keystroke at the end of a text: a character typed, or a backspace.
typed(text) ==
    {Append(text, c) : c \in {ch \in Chars : Len(text) < MaxLen}}
        \cup {SubSeq(text, 1, Len(text) - 1) : n \in {m \in {0} : Len(text) > 0}}

\* ------------------------------------------------- cursor translation
\* Math.round(n / d * x) for n, x >= 0 and d > 0 (halves round up).
Round(n, x, d) == (2 * n * x + d) \div (2 * d)

\* String.prototype.substring with its clamping of the indices.
substring(str, from, to) == SubSeq(str, Min(from, Len(str)) + 1, Min(to, Len(str)))

RECURSIVE sumLinesNoNewline(_, _)
sumLinesNoNewline(lines, n) ==
    IF n = 0 THEN 0 ELSE Len(lines[n]) + sumLinesNoNewline(lines, n - 1)

RECURSIVE sumLines(_, _)
sumLines(lines, n) ==
    IF n = 0 THEN 0 ELSE Len(lines[n]) + 1 + sumLines(lines, n - 1)

calculateApproximatePosition(content, position) ==
    LET textBeforeCursor == substring(content, 0, position)
        linesBeforeCursor == Len(split(textBeforeCursor))
        lastLineLength == Len(split(textBeforeCursor)[linesBeforeCursor])
        lines == split(content)
        whole == sumLines(lines, Min(linesBeforeCursor - 1, Len(lines)))
        approximatePos ==
            IF linesBeforeCursor <= Len(lines)
            THEN whole + Min(lastLineLength, Len(lines[linesBeforeCursor]))
            ELSE whole
    IN  Min(approximatePos, Len(content))

RECURSIVE getCommonPrefixLength(_, _)
getCommonPrefixLength(str1, str2) ==
    IF str1 # << >> /\ str2 # << >> /\ Head(str1) = Head(str2)
    THEN 1 + getCommonPrefixLength(Tail(str1), Tail(str2))
    ELSE 0

RECURSIVE getCommonSuffixLength(_, _)
getCommonSuffixLength(str1, str2) ==
    IF str1 # << >> /\ str2 # << >> /\ str1[Len(str1)] = str2[Len(str2)]
    THEN 1 + getCommonSuffixLength(SubSeq(str1, 1, Len(str1) - 1),
                                   SubSeq(str2, 1, Len(str2) - 1))
    ELSE 0

\* The same computation with the cursor snapped to the end of the common
\* prefix, and with the cursor of the unchanged tail put at the end of the text.
adjustToPrefix(oldContent, newContent, oldPosition) ==
    LET commonPrefixLength == getCommonPrefixLength(oldContent, newContent)
    IN  IF oldContent = newContent THEN oldPosition
        ELSE IF oldPosition <= commonPrefixLength THEN commonPrefixLength
        ELSE Len(newContent)

adjustToEnd(oldContent, newContent, oldPosition) ==
    LET commonPrefixLength == getCommonPrefixLength(oldContent, newContent)
    IN  IF oldContent = newContent THEN oldPosition
        ELSE IF oldPosition <= commonPrefixLength THEN oldPosition
        ELSE Len(newContent)

adjustCursorPosition(oldContent, newContent, oldPosition) ==
    LET commonPrefixLength == getCommonPrefixLength(oldContent, newContent)
        commonSuffixLength ==
            getCommonSuffixLength(
                substring(oldContent, commonPrefixLength, Len(oldContent)),
                substring(newContent, commonPrefixLength, Len(newContent)))
        oldEndPosition == Len(oldContent) - commonSuffixLength
        newEndPosition == Len(newContent) - commonSuffixLength
        newPosition ==
            commonPrefixLength
            + Round(oldPosition - commonPrefixLength,
                    newEndPosition - commonPrefixLength,
                    oldEndPosition - commonPrefixLength)
    IN  IF oldContent = newContent THEN oldPosition
        ELSE IF oldPosition <= commonPrefixLength THEN oldPosition
        ELSE IF oldPosition >= oldEndPosition
             THEN Max(0, Len(newContent) - (Len(oldContent) - oldPosition))
        ELSE Min(Max(0, newPosition), Len(newContent))

\* relativeFrom = docSize > 0 ? from / docSize : 0, then
\* Math.min(Math.round(relativeFrom * newDocSize), newDocSize).
fractionAfterReplace(pos, size, newSize) ==
    IF newSize > 0 THEN Min(Round(pos, newSize, newSize), newSize) ELSE 0

fraction(pos, size, newSize) ==
    IF size > 0 THEN Min(Round(pos, newSize, size), newSize) ELSE 0

\* ------------------------------------------------------------- the state
VARIABLES
    wiring,            \* which of the two wirings this page runs
    cmDoc,             \* CodeMirror: view.state.doc
    cmHead,            \* CodeMirror: view.state.selection.main.head
    mdDoc,             \* Milkdown: view.state.doc
    mdSel,             \* Milkdown: view.state.selection (from, to)
    prevDoc,           \* listener plugin: document of its last report
    prevMarkdown,      \* listener plugin: markdown of its last report
    notes,             \* listener plugin: reports not yet delivered (FIFO)
    isUpdating,        \* the suppression flag
    lastSource,        \* which editor's change is being applied
    debounceTimer,     \* the pending debounced callback, or NoTimer
    releaseTimers,     \* pending setTimeout(release, 100) of the finally blocks
    isInternalUpdate,  \* Milkdown wrapper: closure flag of initializeMilkdown
    internalTimers,    \* Milkdown wrapper: pending releases of that flag
    codemirrorEditor,  \* the sync core's reference to the CodeMirror side
    milkdownEditor,    \* the sync core's reference to the Milkdown side
    lastRun,           \* history: the last debounced callback that ran
    burst,             \* history: the last change notification and its age
    edited,            \* history: the panes the user has typed in
    edits,             \* history: how many edits and selections the user has made
    cancelled,         \* history: destroy() found a debounced callback pending
    syncs,             \* history: sync executions since the last user edit
    timeouts,          \* browser: debounced callbacks set and neither run nor cleared
    cursorCall,        \* one call of a cursor translation: its inputs and result
    pairs              \* two SyncManager instances on one page, each with its editors

surfaces == <<cmDoc, cmHead, mdDoc, mdSel>>
listenerVars == <<prevDoc, prevMarkdown, notes>>
coreVars == <<isUpdating, lastSource, debounceTimer, releaseTimers>>
wrapperVars == <<isInternalUpdate, internalTimers>>
refs == <<codemirrorEditor, milkdownEditor>>
history == <<lastRun, burst, edited, edits, cancelled, syncs>>
program ==
    <<wiring, surfaces, listenerVars, coreVars, wrapperVars, refs, history, timeouts>>
vars == <<program, cursorCall, pairs>>

NoRun ==
    [seq |-> 0, source |-> "none", content |-> << >>, origin |-> "none",
     started |-> FALSE, outcome |-> "none", escaped |-> FALSE, dispatched |-> FALSE,
     disposedAtSchedule |-> FALSE, disposedAtRun |-> FALSE,
     selection |-> [from |-> 0, to |-> 0], size |-> 0]

NoBurst ==
    [source |-> "none", content |-> << >>, age |-> 0, syncs |-> 0, solo |-> TRUE,
     applied |-> TRUE]

\* The quiet period of the wiring in use.
Delay == IF wiring = "SyncManager" THEN SyncDelay ELSE DebounceDelay

disposed == wiring = "SyncManager" /\ codemirrorEditor = Null

cursorAt(pos) == [from |-> pos, to |-> pos]

\* state.tr.replaceWith(0, size, content) with no setSelection after it: the
\* transaction maps the selection through the replace.  A selection of the
\* whole document stays one; the ends of any other selection lie inside the
\* replaced range and both map to its end.
mapSelectionScaled(sel, size, newSize) ==
    [from |-> IF size > 0 THEN Min((2 * sel.from * newSize + size) \div (2 * size), newSize)
              ELSE 0,
     to |-> IF size > 0 THEN Min((2 * sel.to * newSize + size) \div (2 * size), newSize)
            ELSE 0]

mapSelection(sel, size, newSize) ==
    IF size > 0 /\ sel.from = 0 /\ sel.to = size
    THEN [from |-> 0, to |-> newSize]
    ELSE cursorAt(newSize)

\* What the user can select in the Milkdown pane besides a cursor: the whole
\* document, or the text from the start of the first block to the end of the
\* last one.
selections(doc) ==
    {[from |-> 0, to |-> contentSize(doc)] : n \in {m \in {0} : contentSize(doc) > 0}}
        \cup {[from |-> 1, to |-> contentSize(doc) - 1] :
                  n \in {m \in {0} : contentSize(doc) > 2}}

\* The Milkdown wrapper's setCursorPosition: the offset it resolves is
\* Math.min(pos, view.state.doc.content.size).
setCursorPositionUnclamped(pos, doc) == pos

setCursorPosition(pos, doc) == Min(pos, contentSize(doc))

NoCall ==
    [given |-> "none", fn |-> "none", old |-> << >>, new |-> << >>, pos |-> 0,
     size |-> 0, newSize |-> 0, raw |-> 0, result |-> 0, limit |-> 0]

\* The page after initialize(): both editors hold the initial markdown.
construction ==
    /\ wiring \in {"SyncManager", "module"}
    /\ cmDoc \in initialContent
    /\ cmHead = 0
    /\ mdDoc = parser(cmDoc)
    /\ mdSel = cursorAt(0)
    /\ prevDoc = mdDoc
    /\ prevMarkdown = serializer(mdDoc)
    /\ notes = << >>
    /\ isUpdating = FALSE
    /\ lastSource = Null
    /\ debounceTimer = NoTimer
    /\ releaseTimers = {}
    /\ isInternalUpdate = FALSE
    /\ internalTimers = {}
    /\ codemirrorEditor = "editor"
    /\ milkdownEditor = IF wiring = "SyncManager" THEN "editor" ELSE Null
    /\ lastRun = NoRun
    /\ burst = NoBurst
    /\ edited = {}
    /\ edits = 0
    /\ cancelled = FALSE
    /\ syncs = 0
    /\ timeouts = 0

\* new SyncManager() and init(): the fields of one instance, with the two
\* editors it is given and the closure flag of its Milkdown wrapper.
SyncManager(content) ==
    [cmDoc |-> content, cmHead |-> 0, mdDoc |-> parser(content), mdSel |-> cursorAt(0),
     isUpdating |-> FALSE, lastSource |-> Null, debounceTimer |-> NoTimer,
     releaseTimers |-> {}, isInternalUpdate |-> FALSE, internalTimers |-> {},
     codemirrorEditor |-> "editor", edits |-> 0]

Pairs == {1, 2}

NoPairs == [of |-> [i \in Pairs |-> SyncManager(<< >>)], self |-> 0]

Init == construction /\ cursorCall = NoCall /\ pairs = NoPairs

\* ------------------------------------------------------ history helpers
\* A change notification reaches the sync core.
noteArrives(source, content) ==
    IF burst.source = "none" \/ burst.age >= Delay
    THEN [source |-> source, content |-> content, age |-> 0, syncs |-> 0, solo |-> TRUE,
          applied |-> TRUE]
    ELSE [source |-> source, content |-> content, age |-> 0, syncs |-> 0,
          solo |-> burst.solo /\ burst.source = source, applied |-> TRUE]

\* A sync execution applies content, from the pane source.
syncCounted(source, content) ==
    [burst EXCEPT !.syncs = Min(@ + 1, 2),
                  !.applied = @ /\ burst.source = source /\ burst.content = content]

ran(timer, content, started, outcome, escaped, dispatched) ==
    [seq |-> 1 - lastRun.seq, source |-> timer.source, content |-> content,
     origin |-> timer.origin, started |-> started, outcome |-> outcome,
     escaped |-> escaped, dispatched |-> dispatched, disposedAtSchedule |-> timer.disposed,
     disposedAtRun |-> disposed, selection |-> mdSel, size |-> contentSize(mdDoc)]

\* ------------------------------------------------------- the sync cores
setTimeout(source, content, origin, delay) ==
    [source |-> source, content |-> content, origin |-> origin,
     left |-> delay, disposed |-> disposed]

\* SyncManager.handleCodeMirrorChange / handleMilkdownChange up to the
\* setTimeout call: the new value of this.debounceTimer.
handleChangeUnguarded(updating, timer, source, content, origin) ==
    setTimeout(source, content, origin, SyncDelay)

handleChangeImmediate(updating, timer, source, content, origin) ==
    setTimeout(source, content, origin, 0)

handleChange(updating, timer, source, content, origin) ==
    IF updating THEN timer
    ELSE setTimeout(source, content, origin, SyncDelay)

\* Module wiring: the guard of the update listeners, then
\* handleCodeMirrorChange(update) / handleMilkdownChange(ctx).
moduleHandleChangeUnguarded(updating, timer, source, content, origin) ==
    setTimeout(source, content, origin, DebounceDelay)

moduleHandleChange(updating, timer, source, content, origin) ==
    IF updating THEN timer
    ELSE setTimeout(source, content, origin, DebounceDelay)

\* clearTimeout(this.debounceTimer) at the head of the four change handlers:
\* of n callbacks in the browser's timer table, the one the sync core still
\* refers to is removed.
notCleared(timer, n) == n

clearedFirst(timer, n) == IF timer.source # "none" THEN n - 1 ELSE n

\* The browser's timer table after a change notification: a handler that
\* passes its guard clears the timer it refers to and sets a new one.
accepted(updating, timer, n) ==
    IF updating THEN n ELSE clearedFirst(timer, n) + 1

\* The new debounce timer after the change notification of the wiring in use.
notify(updating, timer, source, content, origin) ==
    IF wiring = "SyncManager"
    THEN handleChange(updating, timer, source, content, origin)
    ELSE moduleHandleChange(updating, timer, source, content, origin)

\* --------------------------------------------------------- the user types
\* The user changes the text of the CodeMirror pane.  The update listener
\* runs inside the dispatch and hands the new text to the sync core.
UserEditCodeMirror ==
    /\ edits < MaxEdits
    /\ edits' = edits + 1
    /\ \E content \in typed(cmDoc) :
        /\ cmDoc' = content
        /\ cmHead' = Len(content)
        /\ debounceTimer' = notify(isUpdating, debounceTimer, "codemirror", content, "user")
        /\ timeouts' = accepted(isUpdating, debounceTimer, timeouts)
        /\ burst' = noteArrives("codemirror", content)
        /\ edited' = edited \cup {"codemirror"}
        /\ syncs' = 0
        /\ UNCHANGED <<wiring, cursorCall, pairs, mdDoc, mdSel, listenerVars, isUpdating, lastSource,
                       releaseTimers, wrapperVars, refs, lastRun, cancelled>>

\* The user changes the document of the Milkdown pane.  The listener plugin
\* reports the transaction ListenerDelay later.
UserEditMilkdown ==
    /\ wiring = "module" => milkdownEditor # Null
    /\ edits < MaxEdits
    /\ edits' = edits + 1
    /\ \E doc \in {parser(t) : t \in typed(serializer(mdDoc))} \ {mdDoc} :
        /\ mdDoc' = doc
        /\ mdSel' = cursorAt(contentSize(doc))
        /\ notes' = Append(notes, [doc |-> doc, left |-> ListenerDelay, origin |-> "user"])
    /\ edited' = edited \cup {"milkdown"}
    /\ syncs' = 0
    /\ UNCHANGED <<wiring, cursorCall, pairs, timeouts, cmDoc, cmHead, prevDoc, prevMarkdown, coreVars, wrapperVars,
                   refs, lastRun, burst, cancelled>>

\* The user selects text in the Milkdown pane: the document stays as it is,
\* and the listener plugin has nothing to report.
UserSelectsMilkdown ==
    /\ wiring = "module" => milkdownEditor # Null
    /\ edits < MaxEdits
    /\ edits' = edits + 1
    /\ \E sel \in selections(mdDoc) \ {mdSel} : mdSel' = sel
    /\ UNCHANGED <<wiring, cursorCall, pairs, timeouts, cmDoc, cmHead, mdDoc, listenerVars, coreVars,
                   wrapperVars, refs, lastRun, burst, edited, cancelled, syncs>>

\* The listener plugin delivers its oldest report: markdownUpdated of the
\* Milkdown wrapper (SyncManager wiring) or updated (module wiring).
ListenerNotify ==
    /\ notes # << >>
    /\ Head(notes).left = 0
    /\ LET note == Head(notes)
           markdown == serializer(note.doc)
           forwarded ==
               /\ note.doc # prevDoc
               /\ IF wiring = "SyncManager"
                  THEN ~isInternalUpdate /\ markdown # prevMarkdown
                  ELSE ~isUpdating
       IN  /\ notes' = Tail(notes)
           /\ prevDoc' = note.doc
           /\ prevMarkdown' =
                 IF wiring = "SyncManager" /\ note.doc # prevDoc THEN markdown ELSE prevMarkdown
           /\ debounceTimer' =
                 IF forwarded
                 THEN notify(isUpdating, debounceTimer, "milkdown", markdown, note.origin)
                 ELSE debounceTimer
           /\ timeouts' =
                 IF forwarded THEN accepted(isUpdating, debounceTimer, timeouts) ELSE timeouts
           /\ burst' = IF forwarded THEN noteArrives("milkdown", markdown) ELSE burst
    /\ UNCHANGED <<wiring, cursorCall, pairs, surfaces, isUpdating, lastSource, releaseTimers, wrapperVars,
                   refs, lastRun, edited, edits, cancelled, syncs>>

\* ------------------------------------------------------------------ time
due(timer) == timer.source # "none" /\ timer.left = 0

noneDue ==
    /\ ~due(debounceTimer)
    /\ 0 \notin releaseTimers
    /\ 0 \notin internalTimers
    /\ notes # << >> => Head(notes).left > 0

Tick ==
    /\ noneDue
    /\ debounceTimer' =
          IF debounceTimer.source = "none" THEN debounceTimer
          ELSE [debounceTimer EXCEPT !.left = @ - 1]
    /\ releaseTimers' = {t - 1 : t \in releaseTimers}
    /\ internalTimers' = {t - 1 : t \in internalTimers}
    /\ notes' = [i \in 1..Len(notes) |-> [notes[i] EXCEPT !.left = @ - 1]]
    /\ burst' = IF burst.source = "none" THEN burst
                ELSE [burst EXCEPT !.age = Min(@ + 1, SyncDelay + 1)]
    /\ UNCHANGED <<wiring, cursorCall, pairs, timeouts, surfaces, prevDoc, prevMarkdown, isUpdating, lastSource,
                   isInternalUpdate, refs, lastRun, edited, edits, cancelled, syncs>>

\* The finally blocks of the two SyncManager callbacks: the release of the
\* flag is scheduled whatever the outcome of the try block was.
finallyReleaseOnSuccess(timers, outcome) ==
    IF outcome = "ok" THEN timers \cup {ReleaseDelay} ELSE timers

finallyRelease(timers, outcome) == timers \cup {ReleaseDelay}

\* The wrapper's setContent and the module's syncToMilkdown build the
\* transaction from the parsed document and dispatch it: the document is
\* replaced only if neither the parser nor the dispatch threw.
replaceWithCleared(doc, content, outcome) ==
    IF outcome \in {"ok", "cursor"} THEN parser(content)
    ELSE IF outcome = "parse" THEN << >> ELSE doc

replaceWith(doc, content, outcome) ==
    IF outcome \in {"ok", "cursor"} THEN parser(content) ELSE doc

\* The catch blocks of the four callbacks log the error and show it in the
\* status line: the callback that failed leaves no timer behind.
catchErrorRetry(timer, outcome) ==
    IF outcome = "ok" THEN NoTimer ELSE [timer EXCEPT !.left = SyncDelay]

catchError(timer, outcome) == NoTimer

\* clearTimeout(this.debounceTimer) in destroy()
timerKept(timer) == timer

clearTimeout(timer) == NoTimer

\* ------------------------------------------- SyncManager wiring: callbacks
\* The failure points that lie inside the try blocks of the two callbacks:
\* a null editor reference, the parser, a dispatch, a cursor placement.
tryCodeMirrorChange == {"null", "parse", "dispatch", "cursor"}
tryWithoutCursor == {"null", "dispatch"}

tryMilkdownChange == {"null", "dispatch", "cursor"}

\* The debounced callback of handleCodeMirrorChange: push the text captured
\* by the notification into Milkdown through the wrapper's setContent.
CodeMirrorSyncTimer ==
    /\ wiring = "SyncManager"
    /\ due(debounceTimer)
    /\ debounceTimer.source = "codemirror"
    /\ LET content == debounceTimer.content IN
       \/ /\ lastSource = "milkdown"
          /\ lastSource' = Null
          /\ debounceTimer' = NoTimer
          /\ timeouts' = timeouts - 1
          /\ lastRun' = ran(debounceTimer, content, FALSE, "skipped", FALSE, FALSE)
          /\ UNCHANGED <<wiring, cursorCall, pairs, surfaces, listenerVars, isUpdating, releaseTimers,
                         wrapperVars, refs, burst, edited, edits, cancelled, syncs>>
       \/ /\ lastSource # "milkdown"
          /\ \E fault \in {"ok", "parse", "dispatch", "cursor"} :
             LET outcome == IF codemirrorEditor = Null THEN "null" ELSE fault
                 doc == parser(content)
                 approximatePos == calculateApproximatePosition(content, cmHead)
                 replaced == outcome \in {"ok", "cursor"}
             IN  /\ isUpdating' = TRUE
                 /\ lastSource' = "codemirror"
                 /\ debounceTimer' = catchError(debounceTimer, outcome)
                 /\ isInternalUpdate' = IF outcome = "null" THEN isInternalUpdate ELSE TRUE
                 /\ internalTimers' =
                       IF outcome = "null" THEN internalTimers
                       ELSE internalTimers \cup {ReleaseDelay}
                 /\ mdDoc' = replaceWith(mdDoc, content, outcome)
                 /\ notes' =
                       IF replaced
                       THEN Append(notes, [doc |-> doc, left |-> ListenerDelay, origin |-> "sync"])
                       ELSE notes
                 /\ mdSel' =
                       IF outcome = "ok"
                       THEN cursorAt(setCursorPosition(approximatePos, doc))
                       ELSE IF outcome = "cursor"
                            THEN mapSelection(mdSel, contentSize(mdDoc), contentSize(doc))
                       ELSE mdSel
                 /\ releaseTimers' = finallyRelease(releaseTimers, outcome)
                 /\ timeouts' = timeouts - 1
                 /\ lastRun' = ran(debounceTimer, content, TRUE, outcome,
                                   outcome \notin tryCodeMirrorChange \cup {"ok"}, replaced)
                 /\ burst' = syncCounted("codemirror", content)
                 /\ syncs' = Min(syncs + 1, 3)
                 /\ UNCHANGED <<wiring, cursorCall, pairs, cmDoc, cmHead, prevDoc, prevMarkdown, refs, edited, edits, cancelled>>

\* The debounced callback of handleMilkdownChange: push the markdown captured
\* by the notification into CodeMirror unless the text is already the same.
\* The wrapper's update listener runs inside setContent and calls
\* handleCodeMirrorChange while the flag is set.
MilkdownSyncTimer ==
    /\ wiring = "SyncManager"
    /\ due(debounceTimer)
    /\ debounceTimer.source = "milkdown"
    /\ LET content == debounceTimer.content IN
       \/ /\ lastSource = "codemirror"
          /\ lastSource' = Null
          /\ debounceTimer' = NoTimer
          /\ timeouts' = timeouts - 1
          /\ lastRun' = ran(debounceTimer, content, FALSE, "skipped", FALSE, FALSE)
          /\ UNCHANGED <<wiring, cursorCall, pairs, surfaces, listenerVars, isUpdating, releaseTimers,
                         wrapperVars, refs, burst, edited, edits, cancelled, syncs>>
       \/ /\ lastSource # "codemirror"
          /\ \E fault \in {"ok", "dispatch", "cursor"} :
             LET outcome == IF codemirrorEditor = Null THEN "null"
                            ELSE IF cmDoc = content THEN "ok" ELSE fault
                 replaced == cmDoc # content /\ outcome \in {"ok", "cursor"}
             IN  /\ isUpdating' = TRUE
                 /\ lastSource' = "milkdown"
                 /\ cmDoc' = IF replaced THEN content ELSE cmDoc
                 /\ debounceTimer' =
                       IF replaced
                       THEN handleChange(TRUE, catchError(debounceTimer, outcome),
                                         "codemirror", content, "sync")
                       ELSE catchError(debounceTimer, outcome)
                 /\ IF replaced /\ outcome = "ok"
                    THEN cmHead' = adjustCursorPosition(cmDoc, content, cmHead)
                    ELSE IF replaced THEN cmHead' \in {0, Len(content)}
                    ELSE cmHead' = cmHead
                 /\ releaseTimers' = finallyRelease(releaseTimers, outcome)
                 /\ timeouts' = IF replaced THEN accepted(TRUE, NoTimer, timeouts - 1)
                                              ELSE timeouts - 1
                 /\ lastRun' = ran(debounceTimer, content, TRUE, outcome,
                                   outcome \notin tryMilkdownChange \cup {"ok"}, replaced)
                 /\ burst' = syncCounted("milkdown", content)
                 /\ syncs' = Min(syncs + 1, 3)
                 /\ UNCHANGED <<wiring, cursorCall, pairs, mdDoc, mdSel, listenerVars, wrapperVars, refs, edited, edits, cancelled>>

\* setTimeout(() => { this.isUpdating = false; this.lastSource = null }, 100)
ReleaseTimerKeepsSource ==
    /\ 0 \in releaseTimers
    /\ releaseTimers' = releaseTimers \ {0}
    /\ isUpdating' = FALSE
    /\ UNCHANGED <<wiring, cursorCall, pairs, timeouts, surfaces, listenerVars, lastSource, debounceTimer,
                   wrapperVars, refs, history>>

ReleaseTimer ==
    /\ 0 \in releaseTimers
    /\ releaseTimers' = releaseTimers \ {0}
    /\ isUpdating' = FALSE
    /\ lastSource' = Null
    /\ UNCHANGED <<wiring, cursorCall, pairs, timeouts, surfaces, listenerVars, debounceTimer, wrapperVars, refs, history>>

\* setTimeout(() => { isInternalUpdate = false }, 100) of the wrapper
InternalReleaseTimer ==
    /\ 0 \in internalTimers
    /\ internalTimers' = internalTimers \ {0}
    /\ isInternalUpdate' = FALSE
    /\ UNCHANGED <<wiring, cursorCall, pairs, timeouts, surfaces, listenerVars, coreVars, refs, history>>

\* SyncManager.destroy()
destroy ==
    /\ wiring = "SyncManager"
    /\ ~disposed
    /\ debounceTimer' = clearTimeout(debounceTimer)
    /\ timeouts' = clearedFirst(debounceTimer, timeouts)
    /\ cancelled' = (debounceTimer # NoTimer)
    /\ codemirrorEditor' = Null
    /\ milkdownEditor' = Null
    /\ UNCHANGED <<wiring, cursorCall, pairs, surfaces, listenerVars, isUpdating, lastSource, releaseTimers,
                   wrapperVars, lastRun, burst, edited, edits, syncs>>

\* ------------------------------------------------ module wiring: callbacks
trySyncToMilkdown == {"parse", "cursor", "dispatch"}
trySyncToCodeMirror == {"serialize", "dispatch", "cursor"}

\* The debounced callback of the module's handleCodeMirrorChange and the
\* syncToMilkdown it awaits: the text of the captured update replaces the
\* Milkdown document, the selection keeps its relative place, and the flag is
\* cleared in the finally block of the same task.
CodeMirrorDebounceTimer ==
    /\ wiring = "module"
    /\ due(debounceTimer)
    /\ debounceTimer.source = "codemirror"
    /\ LET content == debounceTimer.content IN
       \/ /\ milkdownEditor = Null
          /\ debounceTimer' = NoTimer
          /\ timeouts' = timeouts - 1
          /\ lastRun' = ran(debounceTimer, content, FALSE, "absent", FALSE, FALSE)
          /\ UNCHANGED <<wiring, cursorCall, pairs, surfaces, listenerVars, isUpdating, lastSource,
                         releaseTimers, wrapperVars, refs, burst, edited, edits, cancelled, syncs>>
       \/ /\ milkdownEditor # Null
          /\ \E fault \in {"ok", "parse", "cursor", "dispatch"} :
             LET doc == parser(content)
                 docSize == contentSize(mdDoc)
                 newDocSize == contentSize(doc)
                 newFrom == fraction(mdSel.from, docSize, newDocSize)
                 newTo == fraction(mdSel.to, docSize, newDocSize)
             IN  /\ isUpdating' = FALSE
                 /\ lastSource' = "codemirror"
                 /\ debounceTimer' = catchError(debounceTimer, fault)
                 /\ mdDoc' = replaceWith(mdDoc, content, IF fault = "cursor" THEN "dispatch" ELSE fault)
                 /\ mdSel' =
                       IF fault # "ok" THEN mdSel
                       ELSE IF newFrom = newTo THEN cursorAt(newFrom)
                       ELSE mapSelection(mdSel, docSize, newDocSize)
                 /\ notes' =
                       IF fault = "ok"
                       THEN Append(notes, [doc |-> doc, left |-> ListenerDelay, origin |-> "sync"])
                       ELSE notes
                 /\ timeouts' = timeouts - 1
                 /\ lastRun' = ran(debounceTimer, content, TRUE, fault,
                                   fault \notin trySyncToMilkdown \cup {"ok"}, fault = "ok")
                 /\ burst' = syncCounted("codemirror", content)
                 /\ syncs' = Min(syncs + 1, 3)
                 /\ UNCHANGED <<wiring, cursorCall, pairs, cmDoc, cmHead, prevDoc, prevMarkdown, releaseTimers,
                                wrapperVars, refs, edited, edits, cancelled>>

\* The debounced callback of the module's handleMilkdownChange and its
\* syncToCodeMirror: the document is serialized when the timer fires and
\* replaces the whole CodeMirror text; the update listener of CodeMirror runs
\* inside the dispatch and sees the flag set.  The text is not compared with
\* the markdown first: the replace is a change of the document (docChanged)
\* unless both are empty.
MilkdownDebounceTimer ==
    /\ wiring = "module"
    /\ due(debounceTimer)
    /\ debounceTimer.source = "milkdown"
    /\ codemirrorEditor # Null
    /\ \E fault \in {"ok", "serialize", "dispatch", "cursor"} :
       LET markdown == serializer(mdDoc)
           replaced == fault \in {"ok", "cursor"}
           docChanged == replaced /\ (cmDoc # << >> \/ markdown # << >>)
       IN  /\ isUpdating' = FALSE
           /\ lastSource' = "milkdown"
           /\ cmDoc' = IF replaced THEN markdown ELSE cmDoc
           /\ debounceTimer' =
                 IF docChanged
                 THEN moduleHandleChange(TRUE, catchError(debounceTimer, fault),
                                         "codemirror", markdown, "sync")
                 ELSE catchError(debounceTimer, fault)
           /\ IF fault = "ok"
              THEN cmHead' = fraction(cmHead, Len(cmDoc), Len(markdown))
              ELSE IF replaced THEN cmHead' \in {0, Len(markdown)}
              ELSE cmHead' = cmHead
           /\ timeouts' = IF docChanged THEN accepted(TRUE, NoTimer, timeouts - 1)
                                          ELSE timeouts - 1
           /\ lastRun' = ran(debounceTimer, markdown, TRUE, fault,
                             fault \notin trySyncToCodeMirror \cup {"ok"}, docChanged)
           /\ burst' = syncCounted("milkdown", markdown)
           /\ syncs' = Min(syncs + 1, 3)
           /\ UNCHANGED <<wiring, cursorCall, pairs, mdDoc, mdSel, listenerVars, releaseTimers, wrapperVars,
                          refs, edited, edits, cancelled>>

\* initialize(): Milkdown finishes its asynchronous creation after CodeMirror.
MilkdownCreated ==
    /\ wiring = "module"
    /\ milkdownEditor = Null
    /\ milkdownEditor' = "editor"
    /\ UNCHANGED <<wiring, cursorCall, pairs, timeouts, surfaces, listenerVars, coreVars, wrapperVars, codemirrorEditor,
                   history>>

\* ------------------------------------------------------ the specification
Next ==
    \/ UserEditCodeMirror
    \/ UserEditMilkdown
    \/ UserSelectsMilkdown
    \/ ListenerNotify
    \/ Tick
    \/ CodeMirrorSyncTimer
    \/ MilkdownSyncTimer
    \/ ReleaseTimer
    \/ InternalReleaseTimer
    \/ destroy
    \/ CodeMirrorDebounceTimer
    \/ MilkdownDebounceTimer
    \/ MilkdownCreated

Spec == Init /\ [][Next]_vars

\* The browser's event loop runs every expired timer and lets time pass.
FairSpec ==
    /\ Spec
    /\ WF_vars(Tick)
    /\ WF_vars(ListenerNotify)
    /\ WF_vars(CodeMirrorSyncTimer)
    /\ WF_vars(MilkdownSyncTimer)
    /\ WF_vars(ReleaseTimer)
    /\ WF_vars(InternalReleaseTimer)
    /\ WF_vars(CodeMirrorDebounceTimer)
    /\ WF_vars(MilkdownDebounceTimer)

\* ------------------------------------------- the cursor translations alone
\* What a sync hands to a cursor translation: the old and the new text with a
\* cursor inside the old one, or the old and the new size with an offset
\* inside the old one.
cursorInputs ==
    {[NoCall EXCEPT !.given = "texts", !.old = old, !.new = new, !.pos = pos] :
        old \in Texts, new \in Texts, pos \in 0..MaxLen}
    \cup {[NoCall EXCEPT !.given = "sizes", !.size = size, !.newSize = newSize, !.pos = pos] :
        size \in 0..MaxSize, newSize \in 0..MaxSize, pos \in 0..MaxSize}

CursorInit ==
    /\ construction
    /\ cursorCall \in {c \in cursorInputs :
                          c.pos <= (IF c.given = "texts" THEN Len(c.old) ELSE c.size)}
    /\ pairs = NoPairs

\* syncToMilkdown: newFrom and newTo from the selection's share of the old
\* content size.
syncToMilkdownSelection ==
    /\ cursorCall.given = "sizes" /\ cursorCall.fn = "none"
    /\ cursorCall' =
          [cursorCall EXCEPT
              !.fn = "syncToMilkdown",
              !.result = fraction(cursorCall.pos, cursorCall.size, cursorCall.newSize),
              !.limit = cursorCall.newSize]
    /\ UNCHANGED <<program, pairs>>

\* syncToCodeMirror: newPos from the cursor's share of the old text length.
syncToCodeMirrorCursor ==
    /\ cursorCall.given = "sizes" /\ cursorCall.fn = "none"
    /\ cursorCall' =
          [cursorCall EXCEPT
              !.fn = "syncToCodeMirror",
              !.result = fraction(cursorCall.pos, cursorCall.size, cursorCall.newSize),
              !.limit = cursorCall.newSize]
    /\ UNCHANGED <<program, pairs>>

\* SyncManager.handleMilkdownChange: the offset given to CodeMirror's
\* setCursorPosition after the text was replaced.
adjustCursor ==
    /\ cursorCall.given = "texts" /\ cursorCall.fn = "none"
    /\ cursorCall' =
          [cursorCall EXCEPT
              !.fn = "adjustCursorPosition",
              !.result = adjustCursorPosition(cursorCall.old, cursorCall.new, cursorCall.pos),
              !.limit = Len(cursorCall.new)]
    /\ UNCHANGED <<program, pairs>>

\* SyncManager.handleCodeMirrorChange: the offset at which the Milkdown
\* wrapper's setCursorPosition resolves the new document.
approximateCursor ==
    /\ cursorCall.given = "texts" /\ cursorCall.fn = "none"
    /\ cursorCall' =
          [cursorCall EXCEPT
              !.fn = "calculateApproximatePosition",
              !.raw = calculateApproximatePosition(cursorCall.new, cursorCall.pos),
              !.result = setCursorPosition(
                             calculateApproximatePosition(cursorCall.new, cursorCall.pos),
                             parser(cursorCall.new)),
              !.limit = contentSize(parser(cursorCall.new))]
    /\ UNCHANGED <<program, pairs>>

CursorNext ==
    \/ syncToMilkdownSelection
    \/ syncToCodeMirrorCursor
    \/ adjustCursor
    \/ approximateCursor

CursorSpec == CursorInit /\ [][CursorNext]_vars

\* ------------------------------------------- two editor pairs on one page
\* Every field a SyncManager method assigns is a field of this: the instance
\* self takes its new state and every other instance keeps its own.  Kept at
\* module level instead, flag, source and timer would be one for all pairs.
moduleLevel(all, self, state) ==
    [i \in DOMAIN all |->
        IF i = self THEN state
        ELSE [all[i] EXCEPT !.isUpdating = state.isUpdating,
                            !.lastSource = state.lastSource,
                            !.debounceTimer = state.debounceTimer]]

this(all, self, state) == [all EXCEPT ![self] = state]

PairInit ==
    /\ construction
    /\ wiring = "SyncManager"
    /\ cmDoc = <<"a">>
    /\ cursorCall = NoCall
    /\ \E first \in initialContent, second \in initialContent :
          pairs = [of |-> [i \in Pairs |-> SyncManager(IF i = 1 THEN first ELSE second)],
                   self |-> 0]

pairEdits == pairs.of[1].edits + pairs.of[2].edits

acts(self, state) ==
    /\ pairs' = [of |-> this(pairs.of, self, state), self |-> self]
    /\ UNCHANGED <<program, cursorCall>>

\* The user types in the CodeMirror pane of one pair: its update listener
\* calls handleCodeMirrorChange of that pair's SyncManager.
PairCodeMirrorChange(self) ==
    LET me == pairs.of[self] IN
    /\ pairEdits < MaxEdits
    /\ \E content \in typed(me.cmDoc) :
          acts(self, [me EXCEPT
              !.cmDoc = content,
              !.cmHead = Len(content),
              !.debounceTimer =
                  handleChange(me.isUpdating, me.debounceTimer, "codemirror", content, "user"),
              !.edits = @ + 1])

\* The user edits the Milkdown pane of one pair and its wrapper forwards the
\* markdown to handleMilkdownChange of that pair's SyncManager (the delay of
\* the listener plugin is left to Spec).
PairMilkdownChange(self) ==
    LET me == pairs.of[self] IN
    /\ pairEdits < MaxEdits
    /\ \E doc \in {parser(t) : t \in typed(serializer(me.mdDoc))} \ {me.mdDoc} :
          acts(self, [me EXCEPT
              !.mdDoc = doc,
              !.mdSel = cursorAt(contentSize(doc)),
              !.debounceTimer =
                  IF me.isInternalUpdate THEN @
                  ELSE handleChange(me.isUpdating, me.debounceTimer, "milkdown",
                                    serializer(doc), "user"),
              !.edits = @ + 1])

\* The debounced callback of handleCodeMirrorChange of one pair.
PairCodeMirrorSyncTimer(self) ==
    LET me == pairs.of[self]
        content == me.debounceTimer.content
    IN  /\ due(me.debounceTimer)
        /\ me.debounceTimer.source = "codemirror"
        /\ IF me.lastSource = "milkdown"
           THEN acts(self, [me EXCEPT !.lastSource = Null, !.debounceTimer = NoTimer])
           ELSE \E fault \in {"ok", "parse"} :
                LET outcome == IF me.codemirrorEditor = Null THEN "null" ELSE fault
                    approximatePos == calculateApproximatePosition(content, me.cmHead)
                IN  acts(self, [me EXCEPT
                        !.isUpdating = TRUE,
                        !.lastSource = "codemirror",
                        !.debounceTimer = catchError(@, outcome),
                        !.isInternalUpdate = IF outcome = "null" THEN @ ELSE TRUE,
                        !.internalTimers =
                            IF outcome = "null" THEN @ ELSE @ \cup {ReleaseDelay},
                        !.mdDoc = replaceWith(@, content, outcome),
                        !.mdSel =
                            IF outcome = "ok"
                            THEN cursorAt(setCursorPosition(approximatePos, parser(content)))
                            ELSE @,
                        !.releaseTimers = finallyRelease(@, outcome)])

\* The debounced callback of handleMilkdownChange of one pair.
PairMilkdownSyncTimer(self) ==
    LET me == pairs.of[self]
        content == me.debounceTimer.content
    IN  /\ due(me.debounceTimer)
        /\ me.debounceTimer.source = "milkdown"
        /\ IF me.lastSource = "codemirror"
           THEN acts(self, [me EXCEPT !.lastSource = Null, !.debounceTimer = NoTimer])
           ELSE \E fault \in {"ok", "dispatch"} :
                LET outcome == IF me.codemirrorEditor = Null THEN "null"
                               ELSE IF me.cmDoc = content THEN "ok" ELSE fault
                    replaced == me.cmDoc # content /\ outcome = "ok"
                IN  acts(self, [me EXCEPT
                        !.isUpdating = TRUE,
                        !.lastSource = "milkdown",
                        !.cmDoc = IF replaced THEN content ELSE @,
                        !.cmHead =
                            IF replaced THEN adjustCursorPosition(me.cmDoc, content, @)
                            ELSE @,
                        !.debounceTimer =
                            IF replaced
                            THEN handleChange(TRUE, catchError(@, outcome),
                                              "codemirror", content, "sync")
                            ELSE catchError(@, outcome),
                        !.releaseTimers = finallyRelease(@, outcome)])

\* setTimeout(() => { this.isUpdating = false; this.lastSource = null }, 100)
PairReleaseTimer(self) ==
    LET me == pairs.of[self] IN
    /\ 0 \in me.releaseTimers
    /\ acts(self, [me EXCEPT !.releaseTimers = @ \ {0},
                             !.isUpdating = FALSE,
                             !.lastSource = Null])

\* setTimeout(() => { isInternalUpdate = false }, 100) of one pair's wrapper
PairInternalReleaseTimer(self) ==
    LET me == pairs.of[self] IN
    /\ 0 \in me.internalTimers
    /\ acts(self, [me EXCEPT !.internalTimers = @ \ {0}, !.isInternalUpdate = FALSE])

\* destroy() of one pair's SyncManager
PairDestroy(self) ==
    LET me == pairs.of[self] IN
    /\ me.codemirrorEditor # Null
    /\ acts(self, [me EXCEPT !.debounceTimer = clearTimeout(@),
                             !.codemirrorEditor = Null])

\* 100 ms pass for every timer of the page.
PairTick ==
    /\ \A i \in Pairs :
          /\ ~due(pairs.of[i].debounceTimer)
          /\ 0 \notin pairs.of[i].releaseTimers
          /\ 0 \notin pairs.of[i].internalTimers
    /\ \E i \in Pairs :
          \/ pairs.of[i].debounceTimer.source # "none"
          \/ pairs.of[i].releaseTimers # {}
          \/ pairs.of[i].internalTimers # {}
    /\ pairs' =
          [of |-> [i \in Pairs |->
                      [pairs.of[i] EXCEPT
                          !.debounceTimer =
                              IF @.source = "none" THEN @ ELSE [@ EXCEPT !.left = @ - 1],
                          !.releaseTimers = {t - 1 : t \in @},
                          !.internalTimers = {t - 1 : t \in @}]],
           self |-> 0]
    /\ UNCHANGED <<program, cursorCall>>

PairNext ==
    \/ \E self \in Pairs : PairCodeMirrorChange(self)
    \/ \E self \in Pairs : PairMilkdownChange(self)
    \/ \E self \in Pairs : PairCodeMirrorSyncTimer(self)
    \/ \E self \in Pairs : PairMilkdownSyncTimer(self)
    \/ \E self \in Pairs : PairReleaseTimer(self)
    \/ \E self \in Pairs : PairInternalReleaseTimer(self)
    \/ \E self \in Pairs : PairDestroy(self)
    \/ PairTick

PairSpec == PairInit /\ [][PairNext]_vars

TypeOK ==
    /\ cmDoc \in Texts
    /\ edits \in 0..MaxEdits
    /\ mdDoc \in Docs
    /\ cmHead \in 0..Len(cmDoc)
    /\ isUpdating \in BOOLEAN

\* ================================================================ claims
\* A sync execution that a programmatic replace caused: the callback that
\* ran was scheduled by the notification of a sync's own content replace.
feedbackScheduled == debounceTimer.source # "none" /\ debounceTimer.origin = "sync"
feedbackExecuted == lastRun.started /\ lastRun.origin = "sync"

\* C1: while the user edits only one pane, the content replace of a sync
\* never schedules or executes a sync in the reverse direction.
C1_NoFeedbackLoop ==
    Cardinality(edited) <= 1 => ~feedbackScheduled /\ ~feedbackExecuted

\* C2: a burst of change notifications from one pane, each closer than the
\* debounce delay to the one before and with none from the other pane,
\* results in exactly one sync execution, which runs only once the quiet
\* period after the last notification is over and applies its content.
C2_DebounceCoalescing ==
    (/\ wiring = "SyncManager" /\ ~disposed
     /\ lastRun.outcome \in {"none", "ok"}
     /\ burst.source # "none" /\ burst.solo) =>
        /\ burst.age < Delay => burst.syncs = 0
        /\ burst.age > Delay => burst.syncs = 1 /\ burst.applied

\* C3: whenever the suppression flag is set, by a sync that succeeds or by one
\* that fails, it becomes false again.
C3_FlagAlwaysReleased == isUpdating ~> ~isUpdating

C3_Witness == isUpdating /\ lastRun.outcome = "parse"

\* C4: in the SyncManager wiring, whenever nothing is pending (no debounce
\* timer, no listener report, no flag, no release) and the last sync did not
\* fail, the Milkdown document is the parse of the CodeMirror text.
quiescent ==
    /\ debounceTimer = NoTimer
    /\ notes = << >>
    /\ ~isUpdating
    /\ releaseTimers = {}
    /\ internalTimers = {}
    /\ lastRun.outcome \in {"none", "ok"}

C4_QuiescentConsistency ==
    (wiring = "SyncManager" /\ ~disposed /\ quiescent) => mdDoc = parser(cmDoc)

\* C5: after a user edit that no other edit follows, at most two sync
\* executions run (one edit in all, or the last of several), and every run
\* ends with no debounce timer pending and the flag clear for good.
C5_NoInfiniteLoop ==
    /\ [](syncs <= 2)
    /\ <>[](debounceTimer = NoTimer /\ ~isUpdating)

C5_Witness == edits = 1 /\ syncs = 2 /\ debounceTimer = NoTimer /\ ~isUpdating

callbackRan == lastRun'.seq # lastRun.seq

C7_NoExceptionEscapes == ~lastRun.escaped

C7_Witness ==
    lastRun.source = "milkdown" /\ lastRun.outcome \in {"serialize", "dispatch", "cursor"}

\* C8: a debounced callback that was pending when destroy() was called never
\* runs.
C8_DestroyCancelsPendingSync ==
    ~(lastRun.disposedAtRun /\ ~lastRun.disposedAtSchedule)

C8_Witness == cancelled /\ disposed /\ burst.age > SyncDelay

\* C9: after destroy() no change notification schedules a sync and no sync
\* execution starts.
C9_NoSyncAfterDisposal ==
    disposed => debounceTimer = NoTimer /\ ~(lastRun.disposedAtRun /\ lastRun.started)

\* C10: isUpdating is false as soon as destroy() has returned.
C10_DestroyClearsFlag == [][(disposed' /\ ~disposed) => ~isUpdating']_vars

\* A change notification from the pane source reaches the sync core in this
\* step (and no debounced callback runs in it).
notified(source) ==
    /\ lastRun' = lastRun
    /\ burst' # burst
    /\ burst'.source = source
    /\ burst'.age = 0

\* C11: a change notification from one pane leaves the debounced sync that is
\* pending for the other pane as it was, neither cancelled nor replaced.
C11_OwnPendingState ==
    [][\A source \in {"codemirror", "milkdown"} :
          (notified(source) /\ debounceTimer.source \notin {"none", source})
              => debounceTimer' = debounceTimer]_vars

\* C12: a change notification that arrives while isUpdating is set changes
\* nothing: the pending timer, the flag, lastSource and both panes stay as
\* they are (a user's keystroke in CodeMirror changes only its own text), and
\* the notification CodeMirror raises inside a sync's replace schedules
\* nothing.
C12_SuppressedNotificationFrame ==
    [][/\ (notified("milkdown") /\ isUpdating) => UNCHANGED <<coreVars, surfaces>>
       /\ (notified("codemirror") /\ isUpdating) => UNCHANGED <<coreVars, mdDoc, mdSel>>
       /\ (callbackRan /\ lastRun'.source = "milkdown" /\ lastRun'.dispatched)
              => debounceTimer' = NoTimer]_vars

C12_Witness ==
    /\ isUpdating /\ burst.source # "none" /\ burst.age = 0 /\ debounceTimer = NoTimer
    /\ lastRun.source = "milkdown" /\ lastRun.dispatched

\* C13: no sync execution begins while isUpdating is set.
C13_MutualExclusion == [][(callbackRan /\ lastRun'.started) => ~isUpdating]_vars

C13_Witness == lastRun.started /\ syncs = 2 /\ Cardinality(edited) = 2

\* C14: isUpdating is false whenever no sync execution is in progress, that
\* is in every state between two tasks of the event loop.
C14_FlagOnlyWhileApplying == ~isUpdating

\* C15: once a sync attempt has completed, every edit the user makes in
\* CodeMirror is accepted by the sync core: a sync carrying it is scheduled.
C15_EveryUserEditRetriggers ==
    [][(lastRun.outcome # "none" /\ edits' # edits /\ cmDoc' # cmDoc) =>
          (debounceTimer'.source = "codemirror" /\ debounceTimer'.content = cmDoc')]_vars

failed == lastRun.started /\ lastRun.outcome # "ok"

\* C16: a sync execution that fails leaves no debounce timer pending, and
\* after it a timer is pending again only once a change notification arrived.
C16_NoAutomaticRetry ==
    [][/\ (callbackRan /\ lastRun'.started /\ lastRun'.outcome # "ok")
              => debounceTimer' = NoTimer
       /\ (failed /\ debounceTimer = NoTimer /\ debounceTimer' # NoTimer)
              => \E source \in {"codemirror", "milkdown"} : notified(source)]_vars

C16_Witness == failed /\ debounceTimer = NoTimer /\ ~isUpdating /\ burst.age > Delay

\* C17: for every cursor inside the old content and every new content, the
\* offset a sync applies lies between 0 and the new content size: the
\* fractions of syncToMilkdown and syncToCodeMirror, the result of
\* adjustCursorPosition, and the offset the Milkdown wrapper resolves.
C17_CursorClamp ==
    cursorCall.fn # "none" => cursorCall.result \in 0..cursorCall.limit

C17_Witness ==
    /\ cursorCall.fn = "calculateApproximatePosition"
    /\ cursorCall.pos > 0 /\ cursorCall.limit = 0

\* A Milkdown-to-CodeMirror sync ran to its end in this step.
milkdownToCodeMirror ==
    callbackRan /\ lastRun'.source = "milkdown" /\ lastRun'.started /\ lastRun'.outcome = "ok"

\* min(round(oldOffset / oldLength * newLength), newLength), 0 for an empty
\* old text, from the offset and length before the replace.
expectedOffset ==
    IF Len(cmDoc) = 0 THEN 0
    ELSE LET rounded == (2 * cmHead * Len(cmDoc') + Len(cmDoc)) \div (2 * Len(cmDoc))
         IN  IF rounded < Len(cmDoc') THEN rounded ELSE Len(cmDoc')

\* C18 as stated: every Milkdown-to-CodeMirror sync places the CodeMirror
\* cursor at the fractional offset.
C18_FractionalCursorMapping == [][milkdownToCodeMirror => cmHead' = expectedOffset]_vars

\* C18 as amended: syncToCodeMirror of the module wiring places the cursor at
\* the fractional offset, and offset 5 of 10 characters maps to offset 10 of 20.
C18_FractionalMappingOfSyncToCodeMirror ==
    /\ [][(wiring = "module" /\ milkdownToCodeMirror) => cmHead' = expectedOffset]_vars
    /\ [](fraction(5, 10, 20) = 10)

C18_Witness ==
    /\ wiring = "module" /\ lastRun.source = "milkdown" /\ lastRun.started
    /\ lastRun.outcome = "ok" /\ cmHead > 0

\* C19: a Milkdown-to-CodeMirror sync whose markdown equals the text of
\* CodeMirror dispatches no replace, leaves text and cursor alone, and the
\* flag is clear or its release is scheduled.
C19_SkipOnIdenticalContent ==
    [][(/\ callbackRan /\ lastRun'.source = "milkdown" /\ lastRun'.started
        /\ lastRun'.outcome # "null" /\ lastRun'.content = cmDoc) =>
          /\ ~lastRun'.dispatched
          /\ cmDoc' = cmDoc
          /\ cmHead' = cmHead
          /\ isUpdating' => ReleaseDelay \in releaseTimers']_vars

\* C20: a change notification the sync core accepts schedules the sync
\* 300 ms (3 ticks) later, whichever pane it comes from.
C20_DefaultQuietPeriod ==
    [][\A source \in {"codemirror", "milkdown"} :
          (notified(source) /\ debounceTimer' # debounceTimer)
              => debounceTimer'.left = 3]_vars

\* C23 as stated: lastSource is null before any sync and from the start of a
\* sync execution on it names the pane whose edit that sync applies.
C23_LastSourceRecordsDirection ==
    /\ ~lastRun.started => lastSource = Null
    /\ lastRun.started => lastSource = lastRun.source

\* C23 as amended: the module-level sync keeps the name up to the next sync;
\* SyncManager keeps it while isUpdating is set and has it null afterwards.
C23_LastSourceUntilRelease ==
    /\ ~lastRun.started => lastSource = Null
    /\ (lastRun.started /\ wiring = "module") => lastSource = lastRun.source
    /\ (lastRun.started /\ wiring = "SyncManager") =>
           lastSource = IF isUpdating THEN lastRun.source ELSE Null

C23_Witness ==
    /\ wiring = "SyncManager" /\ lastRun.started /\ lastRun.source = "milkdown"
    /\ ~isUpdating /\ lastSource = Null

\* C25: in SyncManager lastSource is non-null only while isUpdating is set, it
\* is null whenever a debounced callback starts, and no callback ever takes
\* the branch that skips the sync.
C25_SkipBranchUnreachable ==
    /\ [](wiring = "SyncManager" =>
            /\ lastSource # Null => isUpdating
            /\ lastRun.outcome # "skipped")
    /\ [][(wiring = "SyncManager" /\ callbackRan) => lastSource = Null]_vars

C25_Witness ==
    /\ wiring = "SyncManager" /\ isUpdating /\ lastSource = "milkdown"
    /\ lastRun.started /\ syncs = 2

\* C26: the content a debounced callback writes into the receiving pane is
\* the content the source pane has when the callback runs.
C26_NoStaleSnapshot ==
    [][(callbackRan /\ lastRun'.started /\ lastRun'.outcome # "null") =>
          lastRun'.content =
              IF lastRun'.source = "codemirror" THEN cmDoc ELSE serializer(mdDoc)]_vars

\* C27: the wrapper's isInternalUpdate is set as long as a release of it is
\* pending, and the report of a transaction that setContent dispatched is
\* never forwarded to onChange.
C27_InternalUpdateCoversWindow ==
    /\ [](wiring = "SyncManager" => (internalTimers # {} => isInternalUpdate))
    /\ [][(/\ wiring = "SyncManager"
            /\ notes # << >> /\ notes' = Tail(notes)
            /\ Head(notes).origin = "sync") => ~notified("milkdown")]_vars

\* A CodeMirror-to-Milkdown sync ran to its end in this step.
codeMirrorToMilkdown ==
    callbackRan /\ lastRun'.source = "codemirror" /\ lastRun'.started /\ lastRun'.outcome = "ok"

\* round(offset / size * newSize) capped at newSize, 0 for an empty document,
\* from the Milkdown selection and content size before the replace.
scaled(offset) ==
    LET size == contentSize(mdDoc)
        newSize == contentSize(mdDoc')
    IN  IF size = 0 THEN 0
        ELSE LET rounded == (2 * offset * newSize + size) \div (2 * size)
             IN  IF rounded < newSize THEN rounded ELSE newSize

C24_SingleSharedTimer == timeouts <= 1

C24_Witness ==
    /\ timeouts = 1 /\ burst.age = 0 /\ ~burst.solo
    /\ debounceTimer.source = burst.source /\ debounceTimer.left = Delay

\* The first k characters of both texts are the same.
agreeUpTo(old, new, k) ==
    /\ k <= Len(old) /\ k <= Len(new)
    /\ \A i \in 1..k : old[i] = new[i]

\* The last k characters of both texts are the same.
agreeFromEnd(old, new, k) ==
    /\ k <= Len(old) /\ k <= Len(new)
    /\ \A i \in 0..(k - 1) : old[Len(old) - i] = new[Len(new) - i]

adjusted == cursorCall.fn = "adjustCursorPosition"

\* C28: adjustCursorPosition returns the old offset when the texts are equal
\* or the text before the cursor is the same in both.
C28_CursorInCommonPrefixKept ==
    (/\ adjusted
     /\ \/ cursorCall.old = cursorCall.new
        \/ agreeUpTo(cursorCall.old, cursorCall.new, cursorCall.pos))
        => cursorCall.result = cursorCall.pos

C28_Witness ==
    /\ adjusted /\ cursorCall.old # cursorCall.new
    /\ cursorCall.pos > 0 /\ cursorCall.pos < Len(cursorCall.old)
    /\ agreeUpTo(cursorCall.old, cursorCall.new, cursorCall.pos)
    /\ Len(cursorCall.new) # Len(cursorCall.old)

\* The cursor lies behind the common prefix and the text from the cursor to
\* the end is the same in both, outside the common prefix.
inUnchangedTail ==
    LET old == cursorCall.old
        new == cursorCall.new
        p == cursorCall.pos
        prefix == CHOOSE k \in 0..Len(old) :
                      agreeUpTo(old, new, k) /\ ~agreeUpTo(old, new, k + 1)
    IN  /\ p > prefix
        /\ Len(old) - p <= Len(new) - prefix
        /\ agreeFromEnd(old, new, Len(old) - p)

\* C29: for a cursor in the unchanged tail adjustCursorPosition keeps the
\* distance from the end of the text.
C29_DistanceFromEndKept ==
    (adjusted /\ inUnchangedTail)
        => Len(cursorCall.new) - cursorCall.result = Len(cursorCall.old) - cursorCall.pos

C29_Witness ==
    /\ adjusted /\ inUnchangedTail
    /\ cursorCall.pos < Len(cursorCall.old)
    /\ cursorCall.result # cursorCall.pos

\* C30: calculateApproximatePosition returns every offset inside the content
\* unchanged.
C30_ApproximatePositionIdentity ==
    (cursorCall.fn = "calculateApproximatePosition" /\ cursorCall.pos <= Len(cursorCall.new))
        => cursorCall.raw = cursorCall.pos

C30_Witness ==
    /\ cursorCall.fn = "calculateApproximatePosition"
    /\ cursorCall.pos = Len(cursorCall.new)
    /\ Len(split(cursorCall.new)) > 1
    /\ cursorCall.raw = cursorCall.pos

====
